---- MODULE Spec2Model ----
(***************************************************************************)
(* Model of colourizer.py: a script that opens asm.karyotype (read),       *)
(* asm.karyotype2 (write) and good_contigs.txt (read), loads the contig    *)
(* names and streams every karyotype line to the output, recolouring       *)
(* ("vvlgrey" -> "red") the lines whose 4th field is a listed contig.      *)
(*                                                                         *)
(* Text is a sequence of characters, each character its Unicode code point. *)
(* A file is a record [exists, mode, data] where data is the text stored   *)
(* on disk; what fout.write was handed and the disk does not hold yet is   *)
(* in the two buffers of the handle fout.                                  *)
(***************************************************************************)
EXTENDS Naturals, Sequences, FiniteSets

\* ------------------------------------------------------------------------
\* Bounds of the model
\* ------------------------------------------------------------------------

\* the largest number of raw line fragments a karyotype file is built from
MaxLines == 2

\* the largest number of raw line fragments a contig-name file is built from
MaxTigs == 1

\* ------------------------------------------------------------------------
\* Characters and literals
\* ------------------------------------------------------------------------

\* "\n"
LF == 10

\* "\r"
CR == 13

\* "\t"
TAB == 9

\* " "
SP == 32

\* "\f", the form feed
FF == 12

\* "\x0b", the vertical tab
VT == 11

\* "\xa0", the no-break space
NBSP == 160

\* the characters for which str.isspace() is true: the separators of
\* str.split() and what str.rstrip() strips
Whitespace ==
    (9..13) \cup (28..32) \cup {133, 160, 5760} \cup (8192..8202)
        \cup {8232, 8233, 8239, 8287, 12288}

\* the literal 'vvlgrey'
VVLGREY == <<118, 118, 108, 103, 114, 101, 121>>

\* the literal 'red'
RED == <<114, 101, 100>>

\* the three file names of the with statement
KARYOTYPE == "asm.karyotype"

KARYOTYPE2 == "asm.karyotype2"

GOOD_CONTIGS == "good_contigs.txt"

FileNames == {KARYOTYPE, KARYOTYPE2, GOOD_CONTIGS}

\* os.linesep of the POSIX build: what a written "\n" becomes on disk
linesep == <<LF>>

\* TextIOWrapper._CHUNK_SIZE: the bytes the text layer of fout collects
CHUNK_SIZE == 8192

\* the buffer size of the binary layer of fout: st_blksize of the file
BUFFER_SIZE == 4096

\* ------------------------------------------------------------------------
\* Pure functions of the script (Python str / text-file semantics)
\* ------------------------------------------------------------------------

\* reading in text mode, newline=None: "\r\n" and a lone "\r" are read as "\n"
RECURSIVE UniversalNewlines(_)
UniversalNewlines(raw) ==
    IF raw = <<>> THEN <<>>
    ELSE IF Head(raw) = CR
         THEN IF Len(raw) >= 2 /\ raw[2] = LF
              THEN <<LF>> \o UniversalNewlines(SubSeq(raw, 3, Len(raw)))
              ELSE <<LF>> \o UniversalNewlines(Tail(raw))
         ELSE <<Head(raw)>> \o UniversalNewlines(Tail(raw))

\* index of the first "\n" of s, 0 when there is none
FirstLF(s) ==
    IF \E i \in 1..Len(s) : s[i] = LF
    THEN CHOOSE i \in 1..Len(s) : s[i] = LF /\ \A j \in 1..(i - 1) : s[j] # LF
    ELSE 0

\* iterating a text file: the lines of the text, each keeping its "\n";
\* only the last line may lack one
RECURSIVE ReadLines(_)
ReadLines(text) ==
    IF text = <<>> THEN <<>>
    ELSE LET k == FirstLF(text)
         IN  IF k = 0 THEN <<text>>
             ELSE <<SubSeq(text, 1, k)>> \o ReadLines(SubSeq(text, k + 1, Len(text)))

\* str.rstrip("\n"): only trailing newlines removed
RECURSIVE rstripNewline(_)
rstripNewline(s) ==
    IF s = <<>> \/ s[Len(s)] # LF THEN s
    ELSE rstripNewline(SubSeq(s, 1, Len(s) - 1))

\* str.rstrip(): every trailing whitespace character removed
RECURSIVE rstrip(_)
rstrip(s) ==
    IF s = <<>> \/ s[Len(s)] \notin Whitespace THEN s
    ELSE rstrip(SubSeq(s, 1, Len(s) - 1))

\* length of the longest prefix of s free of whitespace
RECURSIVE WordLen(_)
WordLen(s) ==
    IF s = <<>> \/ Head(s) \in Whitespace THEN 0 ELSE 1 + WordLen(Tail(s))

\* str.split(): the maximal whitespace-free runs of s, in order
RECURSIVE split(_)
split(s) ==
    IF s = <<>> THEN <<>>
    ELSE IF Head(s) \in Whitespace THEN split(Tail(s))
    ELSE LET n == WordLen(s)
         IN  <<SubSeq(s, 1, n)>> \o split(SubSeq(s, n + 1, Len(s)))

\* str.replace(old, new, 1): only the leftmost occurrence replaced
RECURSIVE replaceFirst(_, _, _)
replaceFirst(s, old, new) ==
    IF Len(s) < Len(old) THEN s
    ELSE IF SubSeq(s, 1, Len(old)) = old
         THEN new \o SubSeq(s, Len(old) + 1, Len(s))
         ELSE <<Head(s)>> \o replaceFirst(Tail(s), old, new)

\* str.replace(old, new): every non-overlapping occurrence, scanning from the left
RECURSIVE replace(_, _, _)
replace(s, old, new) ==
    IF Len(s) < Len(old) THEN s
    ELSE IF SubSeq(s, 1, Len(old)) = old
         THEN new \o replace(SubSeq(s, Len(old) + 1, Len(s)), old, new)
         ELSE <<Head(s)>> \o replace(Tail(s), old, new)

\* x in list
In(x, list) == \E i \in 1..Len(list) : list[i] = x

\* [l.rstrip() for l in fin2]
Tigs(ls) == [i \in 1..Len(ls) |-> rstrip(ls[i])]

\* line.rstrip().split()
Parts(line) == split(rstrip(line))

\* writing in text mode, newline=None: every "\n" is written as os.linesep
WriteTranslate(s) == replace(s, <<LF>>, linesep)

\* the number of bytes of a text in UTF-8: one per character, and one more
\* for each character from U+0080, from U+0800 and from U+10000 on
ByteLen(s) ==
    Len(s) + Cardinality({i \in 1..Len(s) : s[i] >= 128})
           + Cardinality({i \in 1..Len(s) : s[i] >= 2048})
           + Cardinality({i \in 1..Len(s) : s[i] >= 65536})

\* BufferedWriter.write(data): data that fits is buffered; otherwise the
\* buffer goes to disk, and the data too when it is larger than the buffer
bufferedWrite(o, data) ==
    IF ByteLen(data) <= BUFFER_SIZE - ByteLen(o.buffer)
    THEN [o EXCEPT !.buffer = @ \o data]
    ELSE IF ByteLen(data) > BUFFER_SIZE
         THEN [o EXCEPT !.buffer = <<>>, !.disk = @ \o o.buffer \o data]
         ELSE [o EXCEPT !.buffer = data, !.disk = @ \o o.buffer]

\* the text layer hands its pending bytes to the binary layer
flushPending(o) == [bufferedWrite(o, o.pending) EXCEPT !.pending = <<>>]

\* a mis-ordered write: the text lands before what is pending
writePrepend(o, s) == [o EXCEPT !.pending = WriteTranslate(s) \o @]

\* fout.write(s) on o = [pending, buffer, disk]: the text joins the pending
\* bytes, which are handed on first when they would exceed the chunk size
\* and afterwards when they have reached it
write(o, s) ==
    LET b == WriteTranslate(s)
        o1 == IF o.pending # <<>> /\ ByteLen(o.pending) + ByteLen(b) > CHUNK_SIZE
              THEN flushPending(o)
              ELSE o
        o2 == [o1 EXCEPT !.pending = @ \o b]
    IN  IF ByteLen(o2.pending) >= CHUNK_SIZE THEN flushPending(o2) ELSE o2

\* fout.close(): the pending bytes and then the buffer reach the disk
close(o) ==
    LET o1 == flushPending(o)
    IN  [o1 EXCEPT !.buffer = <<>>, !.disk = @ \o o1.buffer]

\* open(name, 'a'): an existing file keeps its content
TruncateKeep(f) == [exists |-> TRUE, mode |-> f.mode, data |-> f.data]

\* open(name, 'w'): the file is created, or truncated to empty
Truncate(f) == [exists |-> TRUE, mode |-> f.mode, data |-> <<>>]

\* ------------------------------------------------------------------------
\* Inputs: the files the script may find on disk
\* ------------------------------------------------------------------------

\* "t1"
T1 == <<116, 49>>

\* "t2"
T2 == <<116, 50>>

\* "c - i ": the first three fields of a karyotype line
Pre == <<99, SP, 45, SP, 105, SP>>

\* raw karyotype line fragments (line body and terminator as stored on disk)
KaryotypeRawLines ==
    { Pre \o T1 \o <<SP>> \o VVLGREY \o <<LF>>,                  \* c - i t1 vvlgrey\n
      Pre \o T1 \o <<SP>> \o VVLGREY \o <<CR, LF>>,              \* the same, CRLF
      Pre \o T1 \o <<SP, 98, LF>>,                               \* c - i t1 b\n
      Pre \o T2 \o <<SP, 118>> \o VVLGREY \o VVLGREY,            \* two tokens, no terminator
      Pre \o VVLGREY \o <<LF>>,                                  \* field 3 is the token
      <<TAB, 99, FF, 45, VT, 105, NBSP>> \o T1 \o <<FF>> \o VVLGREY \o <<SP, LF>>,
      <<99, SP>> \o VVLGREY \o <<SP, 105, FF, LF>>,              \* three fields
      <<SP, TAB, NBSP, LF>> }                                    \* whitespace only

\* raw contig-name line fragments
ContigRawLines ==
    { T1 \o <<LF>>,
      T1 \o <<SP, FF, CR, LF>>,                                  \* trailing blanks, CRLF
      T2,                                                        \* no terminator
      VVLGREY \o <<NBSP, LF>>,
      <<SP>> \o T1 \o <<LF>> }                                   \* leading blank

\* the sequences over S of length at most n
SeqsUpTo(S, n) == UNION {[1..k -> S] : k \in 0..n}

RECURSIVE Concat(_)
Concat(ss) == IF ss = <<>> THEN <<>> ELSE Head(ss) \o Concat(Tail(ss))

KaryotypeFiles == {Concat(f) : f \in SeqsUpTo(KaryotypeRawLines, MaxLines)}

ContigFiles == {Concat(f) : f \in SeqsUpTo(ContigRawLines, MaxTigs)}

NoFile == [exists |-> FALSE, mode |-> "rw", data |-> <<>>]

File(text) == [exists |-> TRUE, mode |-> "rw", data |-> text]

\* what asm.karyotype2 may be before the run: absent, a stale copy, or a
\* stale copy the user may not write
OldOutputs ==
    { NoFile,
      File(<<111, 108, 100, LF>>),
      [exists |-> TRUE, mode |-> "r", data |-> <<111, 108, 100, LF>>] }

\* ------------------------------------------------------------------------
\* State
\* ------------------------------------------------------------------------

VARIABLES
    fs,       \* the file system: file name -> [exists, mode, data]
    fs0,      \* history: the file system when the run started
    pc,       \* position of the script
    fin,      \* handle of asm.karyotype: [state, lines, pos]
    fout,     \* handle of asm.karyotype2: [state, pending, buffer]
    fin2,     \* handle of good_contigs.txt: [state, lines]
    openlog,  \* history: the handles in the order they were opened
    tigs,     \* the list tigs
    written,  \* history: the arguments of fout.write, in order
    ntests,   \* history: how often "parts[3] in tigs" was evaluated
    exc       \* the exception in flight: [type, filename]

vars == <<fs, fs0, pc, fin, fout, fin2, openlog, tigs, written, ntests, exc>>

NoExc == [type |-> "none", filename |-> ""]

Unopened == [state |-> "unopened", lines |-> <<>>, pos |-> 0]

Init ==
    /\ \E k \in {NoFile} \cup {File(t) : t \in KaryotypeFiles},
          g \in {NoFile} \cup {File(t) : t \in ContigFiles},
          o \in OldOutputs :
            fs = [n \in FileNames |->
                    IF n = KARYOTYPE THEN k ELSE IF n = GOOD_CONTIGS THEN g ELSE o]
    /\ fs0 = fs
    /\ pc = "open_fin"
    /\ fin = Unopened
    /\ fout = [state |-> "unopened", pending |-> <<>>, buffer |-> <<>>]
    /\ fin2 = Unopened
    /\ openlog = <<>>
    /\ tigs = <<>>
    /\ written = <<>>
    /\ ntests = 0
    /\ exc = NoExc

\* ------------------------------------------------------------------------
\* Steps of the script
\* ------------------------------------------------------------------------

\* open('asm.karyotype','r') as fin
OpenFin ==
    /\ pc = "open_fin"
    /\ IF fs[KARYOTYPE].exists
       THEN /\ fin' = [state |-> "open",
                       lines |-> ReadLines(UniversalNewlines(fs[KARYOTYPE].data)),
                       pos |-> 0]
            /\ openlog' = Append(openlog, "fin")
            /\ pc' = "open_fout"
            /\ exc' = exc
       ELSE /\ exc' = [type |-> "FileNotFoundError", filename |-> KARYOTYPE]
            /\ pc' = "done"
            /\ UNCHANGED <<fin, openlog>>
    /\ UNCHANGED <<fs, fs0, fout, fin2, tigs, written, ntests>>

\* open('asm.karyotype2','w') as fout
OpenFout ==
    /\ pc = "open_fout"
    /\ IF fs[KARYOTYPE2].exists /\ fs[KARYOTYPE2].mode = "r"
       THEN /\ exc' = [type |-> "PermissionError", filename |-> KARYOTYPE2]
            /\ pc' = "exit_fin"
            /\ UNCHANGED <<fs, fout, openlog>>
       ELSE /\ fs' = [fs EXCEPT ![KARYOTYPE2] = Truncate(@)]
            /\ fout' = [state |-> "open", pending |-> <<>>, buffer |-> <<>>]
            /\ openlog' = Append(openlog, "fout")
            /\ pc' = "open_fin2"
            /\ exc' = exc
    /\ UNCHANGED <<fs0, fin, fin2, tigs, written, ntests>>

\* open('good_contigs.txt','r') as fin2
OpenFin2 ==
    /\ pc = "open_fin2"
    /\ IF fs[GOOD_CONTIGS].exists
       THEN /\ fin2' = [state |-> "open",
                        lines |-> ReadLines(UniversalNewlines(fs[GOOD_CONTIGS].data)),
                        pos |-> 0]
            /\ openlog' = Append(openlog, "fin2")
            /\ pc' = "load"
            /\ exc' = exc
       ELSE /\ exc' = [type |-> "FileNotFoundError", filename |-> GOOD_CONTIGS]
            /\ pc' = "exit_fout"
            /\ UNCHANGED <<fin2, openlog>>
    /\ UNCHANGED <<fs, fs0, fin, fout, tigs, written, ntests>>

\* tigs = [l.rstrip() for l in fin2]
LoadTigs ==
    /\ pc = "load"
    /\ tigs' = Tigs(fin2.lines)
    /\ fin2' = [fin2 EXCEPT !.pos = Len(fin2.lines)]
    /\ pc' = "loop"
    /\ UNCHANGED <<fs, fs0, fin, fout, openlog, written, ntests, exc>>

\* the branches of the if statement taken the wrong way round
OutputNegated(line, parts, ts) ==
    IF In(parts[4], ts) THEN line ELSE replace(line, VVLGREY, RED)

\* the text handed to fout.write for a line: lines 5-8
Output(line, parts, ts) ==
    IF In(parts[4], ts) THEN replace(line, VVLGREY, RED) ELSE line

\* a loop body that tolerates a short line: it is passed over
SkipShortLine ==
    UNCHANGED <<fs, fout, written, ntests, pc, exc>>

\* parts[3] on a list of fewer than 4 fields: IndexError leaves the with body
RaiseIndexError ==
    /\ exc' = [type |-> "IndexError", filename |-> ""]
    /\ pc' = "exit_fin2"
    /\ UNCHANGED <<fs, fout, written, ntests>>

\* the handle fout and the file under it after fout.write(s)
Written(s) ==
    write([pending |-> fout.pending, buffer |-> fout.buffer,
           disk |-> fs[KARYOTYPE2].data], s)

\* a loop body without its else branch: only the listed contigs are written
WriteLineOnlyMatches(line, parts) ==
    /\ IF In(parts[4], tigs)
       THEN LET out == Output(line, parts, tigs)
                 w == Written(out)
            IN  /\ fs' = [fs EXCEPT ![KARYOTYPE2].data = w.disk]
                /\ fout' = [fout EXCEPT !.pending = w.pending, !.buffer = w.buffer]
                /\ written' = Append(written, out)
       ELSE UNCHANGED <<fs, fout, written>>
    /\ ntests' = ntests + 1
    /\ UNCHANGED <<pc, exc>>

\* the membership test and the write: lines 5-8
WriteLine(line, parts) ==
    /\ LET out == Output(line, parts, tigs)
           w == Written(out)
       IN  /\ fs' = [fs EXCEPT ![KARYOTYPE2].data = w.disk]
           /\ fout' = [fout EXCEPT !.pending = w.pending, !.buffer = w.buffer]
           /\ written' = Append(written, out)
    /\ ntests' = ntests + 1
    /\ UNCHANGED <<pc, exc>>

\* one iteration of "for line in fin": lines 3-8
NextLine ==
    /\ pc = "loop"
    /\ fin.pos < Len(fin.lines)
    /\ LET line == fin.lines[fin.pos + 1]
           parts == Parts(line)
       IN  /\ fin' = [fin EXCEPT !.pos = @ + 1]
           /\ IF Len(parts) < 4 THEN RaiseIndexError ELSE WriteLine(line, parts)
    /\ UNCHANGED <<fs0, fin2, openlog, tigs>>

\* a loop that stops one line short
EndOfFileEarly ==
    /\ pc = "loop"
    /\ fin.pos + 1 >= Len(fin.lines)
    /\ pc' = "exit_fin2"
    /\ UNCHANGED <<fs, fs0, fin, fout, fin2, openlog, tigs, written, ntests, exc>>

\* the iterator of fin is exhausted: the loop and the with body end
EndOfFile ==
    /\ pc = "loop"
    /\ fin.pos = Len(fin.lines)
    /\ pc' = "exit_fin2"
    /\ UNCHANGED <<fs, fs0, fin, fout, fin2, openlog, tigs, written, ntests, exc>>

\* leaving the with statement: fin2.__exit__
ExitFin2 ==
    /\ pc = "exit_fin2"
    /\ fin2' = [fin2 EXCEPT !.state = "closed"]
    /\ pc' = "exit_fout"
    /\ UNCHANGED <<fs, fs0, fin, fout, openlog, tigs, written, ntests, exc>>

\* the handle fout and the file under it after fout.close()
Closed ==
    close([pending |-> fout.pending, buffer |-> fout.buffer,
           disk |-> fs[KARYOTYPE2].data])

\* an exit that releases fout only when no exception is in flight
ExitFoutLeak ==
    /\ pc = "exit_fout"
    /\ IF exc = NoExc
       THEN /\ fs' = [fs EXCEPT ![KARYOTYPE2].data = Closed.disk]
            /\ fout' = [state |-> "closed", pending |-> <<>>, buffer |-> <<>>]
       ELSE UNCHANGED <<fs, fout>>
    /\ pc' = "exit_fin"
    /\ UNCHANGED <<fs0, fin, fin2, openlog, tigs, written, ntests, exc>>

\* leaving the with statement: fout.__exit__ closes the file, and the close
\* flushes what is buffered to disk
ExitFout ==
    /\ pc = "exit_fout"
    /\ fs' = [fs EXCEPT ![KARYOTYPE2].data = Closed.disk]
    /\ fout' = [state |-> "closed", pending |-> Closed.pending, buffer |-> Closed.buffer]
    /\ pc' = "exit_fin"
    /\ UNCHANGED <<fs0, fin, fin2, openlog, tigs, written, ntests, exc>>

\* leaving the with statement: fin.__exit__; the script ends
ExitFin ==
    /\ pc = "exit_fin"
    /\ fin' = [fin EXCEPT !.state = "closed"]
    /\ pc' = "done"
    /\ UNCHANGED <<fs, fs0, fout, fin2, openlog, tigs, written, ntests, exc>>

Next ==
    \/ OpenFin
    \/ OpenFout
    \/ OpenFin2
    \/ LoadTigs
    \/ NextLine
    \/ EndOfFile
    \/ ExitFin2
    \/ ExitFout
    \/ ExitFin

Spec == Init /\ [][Next]_vars

\* ------------------------------------------------------------------------
\* Vocabulary of the properties, stated independently of the operators above
\* ------------------------------------------------------------------------

\* the lines of a file as a text-mode reader sees them
LinesOf(f) == IF f.exists THEN ReadLines(UniversalNewlines(f.data)) ELSE <<>>

\* the lines of asm.karyotype and of good_contigs.txt as they were at the start
InputLines == LinesOf(fs0[KARYOTYPE])

ContigLines == LinesOf(fs0[GOOD_CONTIGS])

\* the text this run has handed to fout.write: what of it has reached
\* asm.karyotype2 on disk, followed by what the handle still buffers
OutputText ==
    IF fout.state = "unopened" THEN <<>>
    ELSE fs[KARYOTYPE2].data \o fout.buffer \o fout.pending

\* the lines this run has written to its output
OutputLines == ReadLines(UniversalNewlines(OutputText))

\* the lines of the files split at "\n" only, byte for byte
RawInputLines == ReadLines(fs0[KARYOTYPE].data)

RawOutputLines == ReadLines(OutputText)

\* the positions where a whitespace-delimited field of s starts
FieldStarts(s) == {i \in 1..Len(s) : s[i] \notin Whitespace /\ (i = 1 \/ s[i - 1] \in Whitespace)}

FieldCount(s) == Cardinality(FieldStarts(s))

\* the field of s with 0-based index n (s has more than n fields)
Field(s, n) ==
    LET st == CHOOSE i \in FieldStarts(s) : Cardinality({j \in FieldStarts(s) : j < i}) = n
        en == CHOOSE e \in st..Len(s) :
                  /\ \A j \in st..e : s[j] \notin Whitespace
                  /\ (e = Len(s) \/ s[e + 1] \in Whitespace)
    IN  SubSeq(s, st, en)

\* s without its trailing whitespace
TrailingWhitespaceStripped(s) ==
    LET k == CHOOSE n \in 0..Len(s) :
                 /\ (n = 0 \/ s[n] \notin Whitespace)
                 /\ \A j \in (n + 1)..Len(s) : s[j] \in Whitespace
    IN  SubSeq(s, 1, k)

\* s without its line terminator, nothing else removed
TrailingNewlineStripped(s) ==
    IF s # <<>> /\ s[Len(s)] = LF THEN SubSeq(s, 1, Len(s) - 1) ELSE s

\* the contig names, as the lines of good_contigs.txt without trailing whitespace
GoodContigs == {TrailingWhitespaceStripped(ContigLines[i]) : i \in 1..Len(ContigLines)}

\* the positions where "vvlgrey" occurs in s (occurrences cannot overlap)
Occurrences(s) == {i \in 1..Len(s) : i + 6 <= Len(s) /\ SubSeq(s, i, i + 6) = VVLGREY}

ContainsToken(s) == Occurrences(s) # {}

\* s with every occurrence of "vvlgrey" replaced by "red", all else kept
AllReplaced(s) ==
    LET occ == Occurrences(s)
    IN  Concat([i \in 1..Len(s) |->
                  IF i \in occ THEN RED
                  ELSE IF \E o \in occ : o < i /\ i <= o + 6 THEN <<>>
                  ELSE <<s[i]>>])

\* what the script is to write for an input line of at least 4 fields, good
\* being the contig names
Image(l, good) == IF Field(l, 3) \in good THEN AllReplaced(l) ELSE l

\* ------------------------------------------------------------------------
\* Properties
\* ------------------------------------------------------------------------

\* C1 as stated: a written line that carries the colour token is recoloured
\* if and only if its field 3 equals a line of good_contigs.txt with only the
\* trailing newline stripped.
C1_RecolouredIffNewlineStripped ==
    LET inl == InputLines
        outl == OutputLines
        names == {TrailingNewlineStripped(ContigLines[i]) : i \in 1..Len(ContigLines)}
    IN  \A j \in 1..Len(outl) :
            ContainsToken(inl[j]) =>
                ((outl[j] # inl[j]) <=> Field(inl[j], 3) \in names)

\* C1 as amended: a written line that carries the colour token is recoloured
\* if and only if its field 3 equals a line of good_contigs.txt with all of
\* its trailing whitespace stripped.
C1_RecolouredIffWhitespaceStripped ==
    LET inl == InputLines
        outl == OutputLines
        names == {TrailingWhitespaceStripped(ContigLines[i]) : i \in 1..Len(ContigLines)}
    IN  \A j \in 1..Len(outl) :
            ContainsToken(inl[j]) =>
                ((outl[j] # inl[j]) <=> Field(inl[j], 3) \in names)

\* a line was recoloured because of a contig name that is followed by a blank
\* in good_contigs.txt
C1_Witness ==
    \E j \in 1..Len(OutputLines) :
        /\ ContainsToken(InputLines[j])
        /\ OutputLines[j] # InputLines[j]
        /\ \A i \in 1..Len(ContigLines) :
               Field(InputLines[j], 3) # TrailingNewlineStripped(ContigLines[i])

\* C2 as stated: every line consumed is written: recoloured when field 3
\* exists and is a listed contig, unchanged in every other case.
C2_EveryLineWritten ==
    \A j \in 1..fin.pos :
        /\ j <= Len(OutputLines)
        /\ OutputLines[j] =
               IF FieldCount(InputLines[j]) >= 4 /\ Field(InputLines[j], 3) \in GoodContigs
               THEN AllReplaced(InputLines[j])
               ELSE InputLines[j]

\* C2 as amended: a consumed line with a field 3 is written recoloured when
\* that field is a listed contig and unchanged when it is not; a consumed line
\* without a field 3 is not written and ends the run with an IndexError.
C2_PerLineRule ==
    LET inl == InputLines
        outl == OutputLines
        good == GoodContigs
    IN  \A j \in 1..fin.pos :
            IF FieldCount(inl[j]) >= 4
            THEN /\ j <= Len(outl)
                 /\ Field(inl[j], 3) \in good => outl[j] = AllReplaced(inl[j])
                 /\ Field(inl[j], 3) \notin good => outl[j] = inl[j]
            ELSE /\ j = fin.pos
                 /\ Len(outl) = j - 1
                 /\ exc.type = "IndexError"

\* one line was written recoloured, another unchanged although it carries the token
C2_Witness ==
    /\ Len(OutputLines) = 2
    /\ OutputLines[1] # InputLines[1]
    /\ OutputLines[2] = InputLines[2]
    /\ ContainsToken(InputLines[2])

\* the number of lines of a file, as a text-mode reader counts them
LineCount(f) == Len(LinesOf(f))

\* C3 as stated: whenever a run that opened its three files has ended,
\* asm.karyotype2 has as many lines as asm.karyotype.
C3_LineCountAlways ==
    (pc = "done" /\ Len(openlog) = 3)
        => LineCount(fs[KARYOTYPE2]) = LineCount(fs0[KARYOTYPE])

\* C3 as amended: when the run has ended without an exception, asm.karyotype2
\* has as many lines as asm.karyotype.
C3_LineCountOnSuccess ==
    (pc = "done" /\ exc = NoExc)
        => LineCount(fs[KARYOTYPE2]) = LineCount(fs0[KARYOTYPE])

\* a successful run over a two-line file, one line recoloured and one not
C3_Witness ==
    /\ pc = "done"
    /\ exc = NoExc
    /\ LineCount(fs0[KARYOTYPE]) = 2
    /\ \E j \in 1..2 : OutputLines[j] # InputLines[j]
    /\ \E j \in 1..2 : OutputLines[j] = InputLines[j]

\* C4: every line of the output is byte for byte the input line at the same
\* position, or that line with every "vvlgrey" replaced by "red"; the line
\* terminator and all other characters are preserved.
C4_BytesPreserved ==
    \A j \in 1..Len(RawOutputLines) :
        /\ j <= Len(RawInputLines)
        /\ \/ RawOutputLines[j] = RawInputLines[j]
           \/ RawOutputLines[j] = AllReplaced(RawInputLines[j])

\* the number of lines that have been processed to the end
Processed == IF exc.type = "IndexError" THEN fin.pos - 1 ELSE fin.pos

\* C5: at every point the lines handed to the output are the images of the
\* lines processed so far, one per line and in input order (a run that
\* aborts on line k leaves the images of lines 1..k-1); a step only ever
\* appends to the output and to the file on disk; and once fout is closed
\* nothing is left in its buffers: the file on disk holds every line.
C5_OneLinePerConsumed ==
    /\ [](LET inl == InputLines
              outl == OutputLines
              good == GoodContigs
          IN  /\ Len(outl) = Processed
              /\ Len(written) = Processed
              /\ \A j \in 1..Processed : outl[j] = Image(inl[j], good))
    /\ [](fout.state = "closed" =>
              /\ fout.pending = <<>> /\ fout.buffer = <<>>
              /\ Len(LinesOf(fs[KARYOTYPE2])) = Processed)
    /\ [][fout.state = "open" =>
              /\ Len(OutputText') >= Len(OutputText)
              /\ SubSeq(OutputText', 1, Len(OutputText)) = OutputText
              /\ Len(fs'[KARYOTYPE2].data) >= Len(fs[KARYOTYPE2].data)
              /\ SubSeq(fs'[KARYOTYPE2].data, 1, Len(fs[KARYOTYPE2].data))
                     = fs[KARYOTYPE2].data]_vars

\* a finished run has put two different lines into the output file
C5_Witness ==
    /\ Len(LinesOf(fs[KARYOTYPE2])) = 2
    /\ fout.state = "closed"
    /\ Len(OutputLines) = 2
    /\ OutputLines[1] # OutputLines[2]
    /\ Len(InputLines) = 2
    /\ pc = "done"

\* C6: a consumed line of fewer than 4 fields is the last line consumed; the
\* run is then failing with an IndexError, nothing was written for the line,
\* the membership test was not evaluated for it, and from then on nothing is
\* read, handed to the output or recovered.
C6_ShortLineAborts ==
    /\ [](\A j \in 1..fin.pos :
              FieldCount(InputLines[j]) < 4 =>
                  /\ j = fin.pos
                  /\ exc.type = "IndexError"
                  /\ Len(OutputLines) = j - 1
                  /\ Len(written) = j - 1
                  /\ ntests = j - 1
                  /\ pc \in {"exit_fin2", "exit_fout", "exit_fin", "done"})
    /\ [][exc.type = "IndexError" =>
              /\ fin'.pos = fin.pos
              /\ OutputText' = OutputText
              /\ written' = written
              /\ ntests' = ntests
              /\ exc' = exc]_vars

\* a run ended by a short first line; the well-formed second line was never
\* read and nothing was written
C6_Witness ==
    /\ pc = "done"
    /\ exc.type = "IndexError"
    /\ fin.pos = 1
    /\ Len(InputLines) = 2
    /\ FieldCount(InputLines[2]) >= 4
    /\ OutputLines = <<>>

\* C7: a recoloured output line holds no "vvlgrey", and the transform applied
\* to it again, with a contig list that names its field 3, returns it
\* unchanged.
C7_Idempotent ==
    LET inl == InputLines
        outl == OutputLines
        good == GoodContigs
    IN  \A j \in 1..Len(outl) :
            Field(inl[j], 3) \in good =>
                /\ ~ContainsToken(outl[j])
                /\ Output(outl[j], Parts(outl[j]), <<Field(outl[j], 3)>>) = outl[j]

\* a line with two colour tokens was recoloured
C7_Witness ==
    \E j \in 1..Len(OutputLines) :
        /\ Cardinality(Occurrences(InputLines[j])) = 2
        /\ Field(InputLines[j], 3) \in GoodContigs
        /\ OutputLines[j] # InputLines[j]

\* C8: when the run has ended, no handle is open, and every handle that was
\* opened has been closed.
C8_AllClosedAtEnd ==
    pc = "done" =>
        /\ fin.state # "open" /\ fout.state # "open" /\ fin2.state # "open"
        /\ \A i \in 1..Len(openlog) :
               /\ openlog[i] = "fin" => fin.state = "closed"
               /\ openlog[i] = "fout" => fout.state = "closed"
               /\ openlog[i] = "fin2" => fin2.state = "closed"

\* a run that opened its three files and ended on an IndexError
C8_Witness ==
    /\ pc = "done"
    /\ Len(openlog) = 3
    /\ exc.type = "IndexError"
    /\ fin.state = "closed" /\ fout.state = "closed" /\ fin2.state = "closed"

\* the steps the script has left at a position, its loop iterations aside
StepsLeft ==
    CASE pc = "open_fin" -> 8
      [] pc = "open_fout" -> 7
      [] pc = "open_fin2" -> 6
      [] pc = "load" -> 5
      [] pc = "loop" -> 4
      [] pc = "exit_fin2" -> 3
      [] pc = "exit_fout" -> 2
      [] pc = "exit_fin" -> 1
      [] pc = "done" -> 0

\* a bound on the steps a run has left: a file has no more lines than characters
Rank == StepsLeft + (Len(fs0[KARYOTYPE].data) - fin.pos)

\* the script can take a step: an open, the load or a loop iteration is due,
\* or the end of the loop or an exit of the with statement is enabled
CanStep ==
    \/ pc \in {"open_fin", "open_fout", "open_fin2", "load"}
    \/ pc = "loop" /\ fin.pos < Len(fin.lines)
    \/ ENABLED EndOfFile
    \/ ENABLED ExitFin2
    \/ ENABLED ExitFout
    \/ ENABLED ExitFin

\* C9: every run ends (a run that has not ended can take a step, and every
\* step lowers a natural-number bound on the steps left); it ends without an
\* exception exactly when the three files were opened and every input line
\* was read and written.
C9_TerminatesSuccessOrFailure ==
    /\ [](pc # "done" => CanStep)
    /\ [](fin.pos <= Len(fs0[KARYOTYPE].data))
    /\ [][Rank' < Rank]_vars
    /\ [](pc = "done" =>
              ( (exc = NoExc)
                <=> /\ Len(openlog) = 3
                    /\ fin.pos = Len(InputLines)
                    /\ Len(OutputLines) = Len(InputLines) ))

\* a successful run over a file of two lines
C9_Witness ==
    /\ pc = "done"
    /\ exc = NoExc
    /\ Len(InputLines) = 2
    /\ fin.pos = 2

\* C10: the files are opened in the order fin, fout, fin2 and the contig list
\* is loaded before a karyotype line is read; a run that cannot open
\* asm.karyotype leaves asm.karyotype2 as it was; a run that cannot open
\* good_contigs.txt leaves asm.karyotype2 existent, empty and unwritten; the
\* two input files are never modified.
C10_OpenOrderAndFrame ==
    /\ openlog = SubSeq(<<"fin", "fout", "fin2">>, 1, Len(openlog))
    /\ fin.pos > 0 =>
           /\ Len(openlog) = 3
           /\ fin2.pos = Len(ContigLines)
           /\ Len(tigs) = Len(ContigLines)
           /\ \A i \in 1..Len(tigs) : tigs[i] = TrailingWhitespaceStripped(ContigLines[i])
    /\ exc.filename = KARYOTYPE => fs[KARYOTYPE2] = fs0[KARYOTYPE2]
    /\ exc.filename = GOOD_CONTIGS =>
           /\ fs[KARYOTYPE2].exists
           /\ fs[KARYOTYPE2].data = <<>>
           /\ written = <<>>
    /\ fs[KARYOTYPE] = fs0[KARYOTYPE]
    /\ fs[GOOD_CONTIGS] = fs0[GOOD_CONTIGS]

\* good_contigs.txt was missing and the stale output has been emptied
C10_Witness ==
    /\ pc = "done"
    /\ exc.filename = GOOD_CONTIGS
    /\ fs0[KARYOTYPE2].data # <<>>
    /\ fs[KARYOTYPE2].data = <<>>
    /\ Len(InputLines) > 0

====
